---- MODULE Spec2Model ----
(***************************************************************************)
(* Model of the local-filesystem storage backend of linx-server            *)
(* (backends/localfs/localfs.go, backends/storage.go).                     *)
(*                                                                         *)
(* The backend keeps no state of its own: the state is the two directories *)
(* it writes, filesPath (object bytes) and metaPath (JSON sidecars), the   *)
(* process-wide Limits, and the wall clock.  Each exported method is one   *)
(* action; `last` records the arguments and the results of the call that   *)
(* has just returned, and `rewritten` the keys PutMetadata has been called *)
(* on.                                                                     *)
(*                                                                         *)
(* Fault model: every filesystem call whose error the code tests can fail  *)
(* (os.Create, io.Copy, dst.Read, json Encode, the two os.Remove calls of  *)
(* Delete).  The os.Remove calls whose result the code discards (the       *)
(* clean-up removals of Put and writeMetadata) act on a file the same call *)
(* has just created and are modelled as succeeding.                        *)
(***************************************************************************)
EXTENDS Integers, Sequences, FiniteSets, TLC

\* ------------------------------------------------------------------ bounds
NumKeys == 1
MaxByte == 1
MaxContentLen == 2
MaxNow == 3
MaxDuration == 3
MaxLimitSecs == 1
MaxThreshold == 1

\* Object keys are file names; they are numbered so that a directory
\* listing has an order.
Keys == 1..NumKeys
Bytes == 0..MaxByte

\* --------------------------------------------------------- program values
\* time.Time and time.Duration are counted in ticks; time.Second is
\* TicksPerSec ticks, so that Time.Unix() really truncates.
TicksPerSec == 2
HeaderLen == 512

Nil == "nil"
NotFoundErr == "File not found."
FileEmptyError == "Empty file"
FileTooLargeError == "File too large."
BadMetadata == "Corrupted metadata."
IOError == "input/output error"
ErrNotExist == "no such file or directory"

NeverExpire == 0
ZeroTime == 0 - 50 * TicksPerSec

\* ------------------------------------------------------------- sequences
Min(a, b) == IF a < b THEN a ELSE b

Prefix(s, n) == SubSeq(s, 1, Min(n, Len(s)))

SeqsUpTo(S, n) == UNION {[1..i -> S] : i \in 0..n}

Contents == SeqsUpTo(Bytes, MaxContentLen)

\* ---------------------------------------------------------------- hashing
\* sha256.New / hasher.Write / hasher.Sum, scaled down to one byte of
\* digest: the digest is a fold over exactly the bytes fed to the hasher.
HashMod == 256

RECURSIVE Sha256Sum(_)
Sha256Sum(bs) ==
  IF bs = <<>> THEN 0
  ELSE (Sha256Sum(SubSeq(bs, 1, Len(bs) - 1)) * 3 + bs[Len(bs)] + 1) % HashMod

\* hex.EncodeToString: two hex digits per digest byte.
HexEncode(h) == <<h \div 16, h % 16>>

\* ------------------------------------------------------------------ time
Unix(t) == t \div TicksPerSec

TimeUnix(sec) == sec * TicksPerSec

\* -------------------------------------------------------------- metadata
ZeroMetadata ==
  [DeleteKey |-> "", AccessKey |-> "", Sha256sum |-> <<>>, Mimetype |-> "",
   Size |-> 0, Expiry |-> ZeroTime, SrcIp |-> "", OriginalName |-> "",
   ArchiveFiles |-> <<>>]

\* Mutant: writeMetadata leaves Size out of the MetadataJSON it builds.
ToMetadataJSONNoSize(metadata) ==
  [delete_key |-> metadata.DeleteKey,
   access_key |-> metadata.AccessKey,
   mimetype |-> metadata.Mimetype,
   archive_files |-> metadata.ArchiveFiles,
   original_name |-> metadata.OriginalName,
   sha256sum |-> metadata.Sha256sum,
   expiry |-> Unix(metadata.Expiry),
   size |-> 0,
   srcip |-> metadata.SrcIp]

\* MetadataJSON built by writeMetadata from a Metadata value.
ToMetadataJSON(metadata) ==
  [delete_key |-> metadata.DeleteKey,
   access_key |-> metadata.AccessKey,
   mimetype |-> metadata.Mimetype,
   archive_files |-> metadata.ArchiveFiles,
   original_name |-> metadata.OriginalName,
   sha256sum |-> metadata.Sha256sum,
   expiry |-> Unix(metadata.Expiry),
   size |-> metadata.Size,
   srcip |-> metadata.SrcIp]

\* json.Encoder.Encode of a MetadataJSON: the `omitempty` fields are
\* left out of the document when they hold their zero value.
OmitEmptyFields == {"access_key", "srcip", "original_name"}

JSONEncode(mjson) ==
  LET omitted == {f \in OmitEmptyFields : mjson[f] = ""}
                   \cup (IF mjson.archive_files = <<>> THEN {"archive_files"} ELSE {})
  IN [f \in (DOMAIN mjson) \ omitted |-> mjson[f]]

\* json.Decoder.Decode into MetadataJSON{}: a missing field keeps its zero.
JSONField(doc, f, zero) == IF f \in DOMAIN doc THEN doc[f] ELSE zero

JSONDecode(doc) ==
  [delete_key |-> JSONField(doc, "delete_key", ""),
   access_key |-> JSONField(doc, "access_key", ""),
   sha256sum |-> JSONField(doc, "sha256sum", <<>>),
   mimetype |-> JSONField(doc, "mimetype", ""),
   size |-> JSONField(doc, "size", 0),
   expiry |-> JSONField(doc, "expiry", 0),
   srcip |-> JSONField(doc, "srcip", ""),
   original_name |-> JSONField(doc, "original_name", ""),
   archive_files |-> JSONField(doc, "archive_files", <<>>)]

\* ------------------------------------------------------------ filesystem
\* A directory maps every name to <<>> (no such file) or <<data>>.
NoFile == <<>>

\* The bytes of a file os.Create has just created or truncated.
EmptyData == <<>>

\* A sidecar that os.Create has truncated and Encode has not yet filled.
EmptyDoc == [f \in {} |-> 0]

IsFile(dir, key) == dir[key] # NoFile

FileData(dir, key) == dir[key][1]

OsCreate(dir, key, empty) == [dir EXCEPT ![key] = <<empty>>]

OsRemove(dir, key) == [dir EXCEPT ![key] = NoFile]

OsWrite(dir, key, data) == [dir EXCEPT ![key] = <<data>>]

\* ------------------------------------------------------------------ Head
HeadFromJSON(mjson) ==
  [ZeroMetadata EXCEPT
     !.DeleteKey = mjson.delete_key,
     !.AccessKey = mjson.access_key,
     !.Mimetype = mjson.mimetype,
     !.ArchiveFiles = mjson.archive_files,
     !.OriginalName = mjson.original_name,
     !.Sha256sum = mjson.sha256sum,
     !.Expiry = TimeUnix(mjson.expiry),
     !.Size = mjson.size]

HeadResult(metaDir, key) ==
  IF ~IsFile(metaDir, key)
    THEN [metadata |-> ZeroMetadata, err |-> NotFoundErr]
  ELSE IF FileData(metaDir, key) = EmptyDoc
    THEN [metadata |-> ZeroMetadata, err |-> BadMetadata]
  ELSE [metadata |-> HeadFromJSON(JSONDecode(FileData(metaDir, key))),
        err |-> Nil]

\* --------------------------------------------------------- writeMetadata
\* fault is "metaCreate" (os.Create fails), "encode" (Encode fails) or
\* anything else (no failure).
writeMetadata(metaDir, key, metadata, fault) ==
  IF fault = "metaCreate" THEN [meta |-> metaDir, err |-> IOError]
  ELSE IF fault = "encode"
    THEN [meta |-> OsRemove(OsCreate(metaDir, key, EmptyDoc), key),
          err |-> IOError]
  ELSE [meta |-> OsWrite(OsCreate(metaDir, key, EmptyDoc), key,
                         JSONEncode(ToMetadataJSON(metadata))),
        err |-> Nil]

\* -------------------------------------------------------------- Limits
\* backends.Limits, set once from the configuration before the backend
\* serves calls.  MaxDurationTime is in seconds.
LimitsConfigs ==
  [MaxDurationTime : 0..MaxLimitSecs,
   MaxDurationSize : 0..MaxThreshold,
   MaxSize : {MaxContentLen}]

DefaultLimits ==
  [MaxDurationTime |-> MaxLimitSecs, MaxDurationSize |-> MaxThreshold,
   MaxSize |-> MaxContentLen]

\* ------------------------------------------------- content inspection
\* mimetype.Detect on the header: decided by the leading bytes alone.
MimeZip == "application/zip"
MimeText == "text/plain"
MimeOctet == "application/octet-stream"

Detect(header) ==
  IF header = <<>> THEN MimeText
  ELSE IF header[1] = 1 THEN MimeZip
  ELSE MimeOctet

\* helpers.ListArchiveFiles(mimetype, size, r): the inner file names of an
\* archive, one per byte after the leading one here; nothing for any other
\* type or when the archive cannot be read (the error is dropped by Put).
InnerName(b) == IF b = 0 THEN "a.txt" ELSE "b.txt"

ListArchiveFiles(mimetype, size, data, fails) ==
  IF mimetype = MimeZip /\ ~fails /\ size <= Len(data)
    THEN [i \in 1..(size - 1) |-> InnerName(data[i + 1])]
  ELSE <<>>

\* Mutant: the zero-duration branch does not test maxDurationTime > 0.
fileExpiryNoZeroTest(expiryTime, bytes, t, lim) ==
  LET maxDurationTime == lim.MaxDurationTime * TicksPerSec
  IN IF expiryTime = 0
       THEN IF bytes > lim.MaxDurationSize
              THEN t + maxDurationTime
              ELSE NeverExpire
       ELSE IF bytes > lim.MaxDurationSize /\ expiryTime > maxDurationTime
              THEN t + maxDurationTime
              ELSE t + expiryTime

\* Mutant: a requested duration is honoured whatever the size.
fileExpiryUncapped(expiryTime, bytes, t, lim) ==
  LET maxDurationTime == lim.MaxDurationTime * TicksPerSec
  IN IF expiryTime = 0
       THEN IF bytes > lim.MaxDurationSize /\ maxDurationTime > 0
              THEN t + maxDurationTime
              ELSE NeverExpire
       ELSE t + expiryTime

\* ------------------------------------------------------ expiry of a Put
\* Lines 158-172 of Put: the expiry instant from the requested duration,
\* the number of bytes copied, the clock and the Limits.
fileExpiry(expiryTime, bytes, t, lim) ==
  LET maxDurationTime == lim.MaxDurationTime * TicksPerSec
  IN IF expiryTime = 0
       THEN IF bytes > lim.MaxDurationSize /\ maxDurationTime > 0
              THEN t + maxDurationTime
              ELSE NeverExpire
       ELSE IF bytes > lim.MaxDurationSize /\ expiryTime > maxDurationTime
              THEN t + maxDurationTime
              ELSE t + expiryTime

\* ------------------------------------------------------------------- Put
PutFaults == {"none", "create", "copy", "read", "archive", "metaCreate", "encode"}

\* Mutant: the hasher misses the last byte copied.
TeeReaderShort(r, bytes) == Prefix(r, bytes - 1)

\* io.TeeReader(r, hasher): the bytes the hasher is fed while io.Copy
\* transfers `bytes` bytes of r.
TeeReader(r, bytes) == Prefix(r, bytes)

\* Mutant: an error path of Put returns without removing the data file.
RemovePartialSkipped(dir, key) == dir

\* os.Remove(filePath) on the error paths of Put.
RemovePartial(dir, key) == OsRemove(dir, key)

\* Mutant: a content of exactly Limits.MaxSize bytes is accepted.
TooLargeOffByOne(bytes, lim) == bytes > lim.MaxSize

\* The size test of Put (line 153).
TooLarge(bytes, lim) == bytes >= lim.MaxSize

\* The whole of Put as a function of the two directories, the arguments,
\* the clock, the Limits and the injected fault.  `copied` is the number of
\* bytes io.Copy had transferred when it failed (fault = "copy"); `a` holds
\* the arguments deleteKey, accessKey, srcIp and originalName.
PutResult(filesDir, metaDir, key, r, expiryTime, a, t, lim, fault, copied) ==
  LET created == OsCreate(filesDir, key, EmptyData)
      bytes == IF fault = "copy" THEN copied ELSE Len(r)
      hashed == TeeReader(r, bytes)
      copiedDir == OsWrite(created, key, Prefix(r, bytes))
      removed == RemovePartial(copiedDir, key)
      header == Prefix(FileData(copiedDir, key), HeaderLen)
      mimetype == Detect(header)
      m == [ZeroMetadata EXCEPT
              !.Mimetype = mimetype,
              !.Size = bytes,
              !.Sha256sum = HexEncode(Sha256Sum(hashed)),
              !.Expiry = fileExpiry(expiryTime, bytes, t, lim),
              !.DeleteKey = a.deleteKey,
              !.AccessKey = a.accessKey,
              !.SrcIp = a.srcIp,
              !.ArchiveFiles = ListArchiveFiles(mimetype, bytes,
                                 FileData(copiedDir, key), fault = "archive"),
              !.OriginalName = a.originalName]
      wm == writeMetadata(metaDir, key, m, fault)
  IN IF fault = "create"
       THEN [files |-> filesDir, meta |-> metaDir, m |-> ZeroMetadata, err |-> IOError]
     ELSE IF bytes = 0
       THEN [files |-> removed, meta |-> metaDir, m |-> ZeroMetadata,
             err |-> FileEmptyError]
     ELSE IF fault = "copy"
       THEN [files |-> removed, meta |-> metaDir, m |-> ZeroMetadata, err |-> IOError]
     ELSE IF TooLarge(bytes, lim)
       THEN [files |-> removed, meta |-> metaDir, m |-> ZeroMetadata,
             err |-> FileTooLargeError]
     ELSE IF fault = "read"
       THEN [files |-> removed, meta |-> metaDir, m |-> ZeroMetadata, err |-> IOError]
     ELSE IF wm.err # Nil
       THEN [files |-> removed, meta |-> wm.meta, m |-> m, err |-> wm.err]
     ELSE [files |-> copiedDir, meta |-> wm.meta, m |-> m, err |-> Nil]

\* ---------------------------------------------------------------- Delete
DeleteFaults == {"none", "removeData", "removeMeta"}

\* os.Remove as Delete uses it: fails when the file is missing or on an
\* injected error, and then leaves the directory as it was.
RemoveErr(dir, key) == IF IsFile(dir, key) THEN IOError ELSE ErrNotExist

\* Mutant: a missing data file is not an error; the sidecar is removed anyway.
DeleteResultIgnoresMissing(filesDir, metaDir, key, fault) ==
  IF fault = "removeData"
    THEN [files |-> filesDir, meta |-> metaDir, err |-> IOError]
  ELSE IF ~IsFile(metaDir, key) \/ fault = "removeMeta"
    THEN [files |-> OsRemove(filesDir, key), meta |-> metaDir,
          err |-> RemoveErr(metaDir, key)]
  ELSE [files |-> OsRemove(filesDir, key), meta |-> OsRemove(metaDir, key),
        err |-> Nil]

\* Mutant: the sidecar is removed before the data file.
DeleteResultMetaFirst(filesDir, metaDir, key, fault) ==
  IF ~IsFile(metaDir, key) \/ fault = "removeMeta"
    THEN [files |-> filesDir, meta |-> metaDir, err |-> RemoveErr(metaDir, key)]
  ELSE IF ~IsFile(filesDir, key) \/ fault = "removeData"
    THEN [files |-> filesDir, meta |-> OsRemove(metaDir, key),
          err |-> RemoveErr(filesDir, key)]
  ELSE [files |-> OsRemove(filesDir, key), meta |-> OsRemove(metaDir, key),
        err |-> Nil]

DeleteResult(filesDir, metaDir, key, fault) ==
  IF ~IsFile(filesDir, key) \/ fault = "removeData"
    THEN [files |-> filesDir, meta |-> metaDir, err |-> RemoveErr(filesDir, key)]
  ELSE IF ~IsFile(metaDir, key) \/ fault = "removeMeta"
    THEN [files |-> OsRemove(filesDir, key), meta |-> metaDir,
          err |-> RemoveErr(metaDir, key)]
  ELSE [files |-> OsRemove(filesDir, key), meta |-> OsRemove(metaDir, key),
        err |-> Nil]

\* ----------------------------------------------------------- read calls
ExistsResult(filesDir, key) ==
  [exists |-> IsFile(filesDir, key),
   err |-> IF IsFile(filesDir, key) THEN Nil ELSE ErrNotExist]

SizeResult(filesDir, key) ==
  IF IsFile(filesDir, key)
    THEN [size |-> Len(FileData(filesDir, key)), err |-> Nil]
    ELSE [size |-> 0, err |-> ErrNotExist]

\* The io.ReadCloser Get returns: the nil interface, an interface holding
\* the nil *os.File that a failed os.Open returned, or an open file.
NilStream == [isNil |-> TRUE, file |-> <<>>]

NilFileStream == [isNil |-> FALSE, file |-> <<>>]

OpenStream(data) == [isNil |-> FALSE, file |-> <<data>>]

GetResult(filesDir, metaDir, key) ==
  LET h == HeadResult(metaDir, key)
  IN IF h.err # Nil THEN [metadata |-> h.metadata, f |-> NilStream, err |-> h.err]
     ELSE IF ~IsFile(filesDir, key)
       THEN [metadata |-> h.metadata, f |-> NilFileStream, err |-> ErrNotExist]
     ELSE [metadata |-> h.metadata, f |-> OpenStream(FileData(filesDir, key)),
           err |-> Nil]

\* http.ServeFile answers the request itself (404 when the data file is
\* missing); ServeFile returns only the error of Head.
ServeFileResult(filesDir, metaDir, key) ==
  LET h == HeadResult(metaDir, key)
  IN [served |-> IF h.err = Nil /\ IsFile(filesDir, key)
                   THEN <<FileData(filesDir, key)>> ELSE <<>>,
      err |-> h.err]

\* os.ReadDir returns the entries sorted by name.
RECURSIVE ListFrom(_, _)
ListFrom(filesDir, k) ==
  IF k \notin DOMAIN filesDir THEN <<>>
  ELSE (IF IsFile(filesDir, k) THEN <<k>> ELSE <<>>) \o ListFrom(filesDir, k + 1)

\* Mutant: the first directory entry is skipped.
ListResultSkipsFirst(filesDir) == ListFrom(filesDir, 2)

\* List (lines 225-238): the names of the entries of filesPath.
ListResult(filesDir) == ListFrom(filesDir, 1)

\* ================================================================= state
VARIABLES files, meta, now, Limits, last, rewritten, procs

vars == <<files, meta, now, Limits, last, rewritten, procs>>

\* The call that has just returned: its arguments and what it returned.
NoCall ==
  [op |-> "none", key |-> 0, err |-> Nil, m |-> ZeroMetadata, r |-> <<>>,
   expiryTime |-> 0, t |-> 0, fault |-> "none", size |-> 0, exists |-> FALSE, names |-> <<>>,
   f |-> NilStream]

\* The calls in progress when calls overlap: none when they run one at a time.
NoProcs == <<>>

\* ---------------------------------------------------------------- inputs
Durations == (0 - 1)..MaxDuration

\* deleteKey, accessKey, srcIp and originalName of a Put.
PlainArgs ==
  [deleteKey |-> "del1", accessKey |-> "", srcIp |-> "", originalName |-> ""]

FullArgs ==
  [deleteKey |-> "del2", accessKey |-> "acc", srcIp |-> "10.0.0.1",
   originalName |-> "a.bin"]

\* Metadata values handed to PutMetadata: one with every field set, and
\* that one with a single field changed.
SampleMetadata ==
  [DeleteKey |-> "del3", AccessKey |-> "acc3", Sha256sum |-> HexEncode(171),
   Mimetype |-> MimeText, Size |-> 1, Expiry |-> TimeUnix(1), SrcIp |-> "10.0.0.3",
   OriginalName |-> "c.txt", ArchiveFiles |-> <<"a.txt">>]

MetaInputs ==
  {SampleMetadata,
   [SampleMetadata EXCEPT !.AccessKey = ""],
   [SampleMetadata EXCEPT !.SrcIp = ""],
   [SampleMetadata EXCEPT !.OriginalName = ""],
   [SampleMetadata EXCEPT !.ArchiveFiles = <<>>],
   [SampleMetadata EXCEPT !.Size = 0],
   [SampleMetadata EXCEPT !.Size = MaxContentLen],
   [SampleMetadata EXCEPT !.Expiry = NeverExpire],
   [SampleMetadata EXCEPT !.Expiry = TimeUnix(1) + 1]}

WriteFaults == {"none", "metaCreate", "encode"}

\* ------------------------------------------------------------------ Init
Init ==
  /\ files = [k \in Keys |-> NoFile]
  /\ meta = [k \in Keys |-> NoFile]
  /\ now = 1
  /\ Limits = DefaultLimits
  /\ last = NoCall
  /\ rewritten = {}
  /\ procs = NoProcs

\* --------------------------------------------------------------- actions
Put(key, r, expiryTime, a, fault, copied) ==
  LET res == PutResult(files, meta, key, r, expiryTime, a, now, Limits, fault, copied)
  IN /\ files' = res.files
     /\ meta' = res.meta
     /\ last' = [NoCall EXCEPT !.op = "Put", !.key = key, !.err = res.err,
                   !.m = res.m, !.r = r, !.expiryTime = expiryTime, !.t = now,
                   !.fault = fault]
     /\ UNCHANGED <<now, Limits, rewritten, procs>>

\* Mutant: the sidecar is created in the data directory as well.
PutMetadataInDataDir(key, m, fault) ==
  LET res == writeMetadata(meta, key, m, fault)
  IN /\ meta' = res.meta
     /\ files' = OsCreate(files, key, EmptyData)
     /\ last' = [NoCall EXCEPT !.op = "PutMetadata", !.key = key,
                   !.err = res.err, !.m = m, !.t = now, !.fault = fault]
     /\ rewritten' = rewritten \cup {key}
     /\ UNCHANGED <<now, Limits, procs>>

PutMetadata(key, m, fault) ==
  LET res == writeMetadata(meta, key, m, fault)
  IN /\ meta' = res.meta
     /\ last' = [NoCall EXCEPT !.op = "PutMetadata", !.key = key,
                   !.err = res.err, !.m = m, !.t = now, !.fault = fault]
     /\ rewritten' = rewritten \cup {key}
     /\ UNCHANGED <<files, now, Limits, procs>>

Delete(key, fault) ==
  LET res == DeleteResult(files, meta, key, fault)
  IN /\ files' = res.files
     /\ meta' = res.meta
     /\ last' = [NoCall EXCEPT !.op = "Delete", !.key = key, !.err = res.err,
                   !.t = now, !.fault = fault]
     /\ UNCHANGED <<now, Limits, rewritten, procs>>

HeadCall(key) ==
  LET res == HeadResult(meta, key)
  IN /\ last' = [NoCall EXCEPT !.op = "Head", !.key = key, !.err = res.err,
                   !.m = res.metadata, !.t = now]
     /\ UNCHANGED <<files, meta, now, Limits, rewritten, procs>>

Get(key) ==
  LET res == GetResult(files, meta, key)
  IN /\ last' = [NoCall EXCEPT !.op = "Get", !.key = key, !.err = res.err,
                   !.m = res.metadata, !.f = res.f, !.t = now]
     /\ UNCHANGED <<files, meta, now, Limits, rewritten, procs>>

ServeFile(key) ==
  LET res == ServeFileResult(files, meta, key)
  IN /\ last' = [NoCall EXCEPT !.op = "ServeFile", !.key = key, !.err = res.err,
                   !.f = [isNil |-> res.served = <<>>, file |-> res.served],
                   !.t = now]
     /\ UNCHANGED <<files, meta, now, Limits, rewritten, procs>>

Exists(key) ==
  LET res == ExistsResult(files, key)
  IN /\ last' = [NoCall EXCEPT !.op = "Exists", !.key = key, !.err = res.err,
                   !.exists = res.exists, !.t = now]
     /\ UNCHANGED <<files, meta, now, Limits, rewritten, procs>>

Size(key) ==
  LET res == SizeResult(files, key)
  IN /\ last' = [NoCall EXCEPT !.op = "Size", !.key = key, !.err = res.err,
                   !.size = res.size, !.t = now]
     /\ UNCHANGED <<files, meta, now, Limits, rewritten, procs>>

List ==
  /\ last' = [NoCall EXCEPT !.op = "List", !.names = ListResult(files), !.t = now]
  /\ UNCHANGED <<files, meta, now, Limits, rewritten, procs>>

\* The wall clock advances between calls.
Tick ==
  /\ now < MaxNow
  /\ now' = now + 1
  /\ UNCHANGED <<files, meta, Limits, last, rewritten, procs>>

\* Contents told apart by their length alone.
Zeros == {[i \in 1..n |-> 0] : n \in 0..MaxContentLen}

\* Put on any key with every fault; the contents are of every length.
PutStep ==
  \E key \in Keys, r \in Zeros \cup {<<MaxByte>>}, fault \in PutFaults :
    \E copied \in (IF fault = "copy" THEN 0..Len(r) ELSE {Len(r)}) :
      Put(key, r, 0, FullArgs, fault, copied)

PutMetadataStep ==
  \E key \in Keys, fault \in WriteFaults,
     m \in {SampleMetadata, [SampleMetadata EXCEPT !.Size = MaxContentLen]} :
    PutMetadata(key, m, fault)

DeleteStep == \E key \in Keys, fault \in DeleteFaults : Delete(key, fault)

HeadStep == \E key \in Keys : HeadCall(key)

GetStep == \E key \in Keys : Get(key)

ServeFileStep == \E key \in Keys : ServeFile(key)

ExistsStep == \E key \in Keys : Exists(key)

SizeStep == \E key \in Keys : Size(key)

\* ======================================================= specifications
\* Any sequence of calls, one at a time, under the default Limits.
Next ==
  \/ PutStep
  \/ PutMetadataStep
  \/ DeleteStep
  \/ HeadStep
  \/ GetStep
  \/ ServeFileStep
  \/ ExistsStep
  \/ SizeStep
  \/ List

Spec == Init /\ [][Next]_vars

\* Put, Delete and the read calls with no I/O failure at all.
PutNoFaultStep ==
  \E key \in Keys, r \in Contents, expiryTime \in {0, MaxDuration},
     a \in {PlainArgs, FullArgs} :
    Put(key, r, expiryTime, a, "none", Len(r))

DeleteNoFaultStep == \E key \in Keys : Delete(key, "none")

NextNoFault ==
  \/ PutNoFaultStep
  \/ DeleteNoFaultStep
  \/ HeadStep
  \/ GetStep
  \/ ServeFileStep
  \/ ExistsStep
  \/ SizeStep
  \/ List

SpecNoFault == Init /\ [][NextNoFault]_vars

\* Uploads under every configuration of the Limits, every requested
\* duration and a moving clock.
InitExpiry ==
  /\ files = [k \in Keys |-> NoFile]
  /\ meta = [k \in Keys |-> NoFile]
  /\ now = 1
  /\ Limits \in LimitsConfigs
  /\ last = NoCall
  /\ rewritten = {}
  /\ procs = NoProcs

PutExpiryStep ==
  \E r \in Zeros, expiryTime \in Durations :
    Put(1, r, expiryTime, PlainArgs, "none", Len(r))

DeleteExpiryStep == Delete(1, "none")

NextExpiry == PutExpiryStep \/ DeleteExpiryStep \/ Tick

SpecExpiry == InitExpiry /\ [][NextExpiry]_vars

\* Sidecars written by PutMetadata with every sample Metadata, read by Head.
PutMetadataAnyStep ==
  \E m \in MetaInputs, fault \in WriteFaults : PutMetadata(1, m, fault)

PutPlainStep == \E r \in Contents : Put(1, r, 0, PlainArgs, "none", Len(r))

NextMeta == PutMetadataAnyStep \/ HeadCall(1) \/ Delete(1, "none") \/ PutPlainStep

SpecMeta == Init /\ [][NextMeta]_vars

\* Uploads of every content to one key, with the copy failing at any byte.
PutContentStep ==
  \E r \in Contents, a \in {PlainArgs, FullArgs}, fault \in {"none", "copy", "archive"} :
    \E copied \in (IF fault = "copy" THEN 0..Len(r) ELSE {Len(r)}) :
      Put(1, r, 0, a, fault, copied)

NextContent == PutContentStep \/ Delete(1, "none") \/ HeadCall(1)

SpecContent == Init /\ [][NextContent]_vars

\* Puts that do not fail, of every length, with PutMetadata and Delete
\* under every fault: the calls that change one directory and not the other.
PutFrameStep ==
  \E key \in Keys, r \in Zeros \cup {<<MaxByte>>}, a \in {PlainArgs, FullArgs} :
    Put(key, r, 0, a, "none", Len(r))

NextFrame == PutFrameStep \/ PutMetadataStep \/ DeleteStep

SpecFrame == Init /\ [][NextFrame]_vars

\* ================================================================ claims
SidecarOf(key) == HeadResult(meta, key)

PutSucceeded == last.op = "Put" /\ last.err = Nil

\* C1: after a successful Put(key, content), Head(key) succeeds and reports
\* the SHA-256 of exactly the bytes of content and size = len(content); the
\* Metadata Put returned carries the same two values.
C1_PutThenHead ==
  PutSucceeded =>
    /\ SidecarOf(last.key).err = Nil
    /\ SidecarOf(last.key).metadata.Sha256sum = HexEncode(Sha256Sum(last.r))
    /\ SidecarOf(last.key).metadata.Size = Len(last.r)
    /\ last.m.Sha256sum = HexEncode(Sha256Sum(last.r))
    /\ last.m.Size = Len(last.r)

C1_Witness ==
  /\ PutSucceeded
  /\ Len(last.r) > 0
  /\ Len(last.r) < Limits.MaxSize
  /\ last.r[1] = 1

\* C2: between calls, the data file of a key exists if and only if its
\* metadata sidecar exists.
C2_DataIffSidecar ==
  \A k \in Keys : IsFile(files, k) <=> IsFile(meta, k)

\* C3: Put with zero-length content fails with FileEmptyError and leaves
\* neither a data file nor a sidecar for the key.
C3_EmptyPutLeavesNothing ==
  (last.op = "Put" /\ Len(last.r) = 0) =>
    /\ last.err = FileEmptyError
    /\ ~IsFile(files, last.key)
    /\ ~IsFile(meta, last.key)

\* C4: Put with content of Limits.MaxSize bytes or more, copied without an
\* I/O error, fails with FileTooLargeError and leaves neither a data file
\* nor a sidecar for the key.
C4_TooLargePutLeavesNothing ==
  (last.op = "Put" /\ Len(last.r) >= Limits.MaxSize /\ last.fault # "copy") =>
    /\ last.err = FileTooLargeError
    /\ ~IsFile(files, last.key)
    /\ ~IsFile(meta, last.key)

\* C5: whenever Put returns an error for empty content, a copy error, too
\* large a content, a failed read-back of the header or a failed write of
\* the sidecar, no data file exists for the key when it returns.
PutFailedAfterCreate ==
  last.op = "Put" /\ last.err # Nil /\ last.fault # "create"

C5_FailedPutRemovesData ==
  PutFailedAfterCreate => ~IsFile(files, last.key)

C5_Witness ==
  /\ PutFailedAfterCreate
  /\ last.fault \in {"metaCreate", "encode"}
  /\ Len(last.r) > 0
  /\ ~IsFile(files, last.key)

\* C6: after a successful PutMetadata(key, m), Head(key) returns a Metadata
\* equal to m in every field.
C6_PutMetadataRoundTrip ==
  (last.op = "PutMetadata" /\ last.err = Nil) =>
    /\ SidecarOf(last.key).err = Nil
    /\ SidecarOf(last.key).metadata = last.m

\* C7: the expiry of a successful Put is the Expiry Policy of the requested
\* duration d, the size s, the limit L and the threshold T: for d = 0 it is
\* now + L when s > T and L > 0 and never otherwise; for d # 0 it is now + L
\* when s > T and d > L and now + d otherwise.  The sidecar stores it in
\* whole seconds.
ExpiryPolicy(d, s, L, T, t) ==
  IF d = 0
    THEN (IF s > T /\ L > 0 THEN t + L ELSE NeverExpire)
    ELSE (IF s > T /\ d > L THEN t + L ELSE t + d)

PolicyOfLastPut ==
  ExpiryPolicy(last.expiryTime, Len(last.r),
               Limits.MaxDurationTime * TicksPerSec, Limits.MaxDurationSize, last.t)

\* The cases of the specification: L = 3600 s, T = 1000 bytes.
HourLimits == [MaxDurationTime |-> 3600, MaxDurationSize |-> 1000, MaxSize |-> 4096]

C7_ConcreteCases ==
  /\ fileExpiry(0, 500, now, HourLimits) = NeverExpire
  /\ fileExpiry(0, 2000, now, HourLimits) = now + 3600 * TicksPerSec
  /\ fileExpiry(7200 * TicksPerSec, 2000, now, HourLimits) = now + 3600 * TicksPerSec
  /\ fileExpiry(1800 * TicksPerSec, 2000, now, HourLimits) = now + 1800 * TicksPerSec

C7_ExpiryFollowsPolicy ==
  /\ C7_ConcreteCases
  /\ PutSucceeded =>
       /\ last.m.Expiry = PolicyOfLastPut
       /\ SidecarOf(last.key).metadata.Expiry = TimeUnix(Unix(PolicyOfLastPut))

C7_Witness ==
  /\ PutSucceeded
  /\ last.expiryTime > Limits.MaxDurationTime * TicksPerSec
  /\ Limits.MaxDurationTime > 0
  /\ Len(last.r) > Limits.MaxDurationSize
  /\ last.m.Expiry = last.t + Limits.MaxDurationTime * TicksPerSec

\* C8 as stated: for every requested duration and every limit, a successful
\* Put of more than the threshold gets an expiry that is not the never
\* sentinel and is at most now + limit; a Put of at most the threshold gets
\* exactly what was requested.
LargePut == PutSucceeded /\ Len(last.r) > Limits.MaxDurationSize

SmallPut == PutSucceeded /\ Len(last.r) <= Limits.MaxDurationSize

Capped(expiry) ==
  /\ expiry # NeverExpire
  /\ expiry <= last.t + Limits.MaxDurationTime * TicksPerSec

Requested ==
  IF last.expiryTime = 0 THEN NeverExpire ELSE last.t + last.expiryTime

C8_LargeAlwaysCapped ==
  /\ LargePut => Capped(last.m.Expiry)
  /\ SmallPut => last.m.Expiry = Requested

\* C8 amended: the cap on large objects holds when the configured limit is
\* greater than zero and the requested duration is not negative; small
\* objects get exactly what was requested.
C8_LargeCappedUnderPositiveLimit ==
  /\ (LargePut /\ Limits.MaxDurationTime > 0 /\ last.expiryTime >= 0) =>
       /\ Capped(last.m.Expiry)
       /\ Capped(SidecarOf(last.key).metadata.Expiry)
  /\ SmallPut => last.m.Expiry = Requested

C8_Witness ==
  /\ LargePut
  /\ Limits.MaxDurationTime > 0
  /\ last.expiryTime = 0
  /\ last.m.Expiry = last.t + Limits.MaxDurationTime * TicksPerSec

\* C9: the bytes of a stored object never change while no Delete of its
\* key runs; a later Put on the key fails without altering them.
C9_DataImmutable ==
  [][\A k \in Keys :
       (IsFile(files, k) /\ ~(last'.op = "Delete" /\ last'.key = k)) =>
         /\ files'[k] = files[k]
         /\ (last'.op = "Put" /\ last'.key = k) => last'.err # Nil]_vars

\* C10 as stated: after any sequence of Put, PutMetadata and Delete calls,
\* every key whose data file exists has a readable sidecar whose size is
\* Size(key) and whose sha256sum is the digest of the stored bytes.
SidecarMatchesData(k) ==
  IsFile(files, k) =>
    /\ SidecarOf(k).err = Nil
    /\ SizeResult(files, k).err = Nil
    /\ SidecarOf(k).metadata.Size = SizeResult(files, k).size
    /\ GetResult(files, meta, k).err = Nil
    /\ SidecarOf(k).metadata.Sha256sum =
         HexEncode(Sha256Sum(GetResult(files, meta, k).f.file[1]))

C10_SidecarAlwaysMatches == \A k \in Keys : SidecarMatchesData(k)

\* C10 amended: the same for every key that exists and on which no
\* PutMetadata has been called, that is after Put and Delete calls alone.
C10_MatchesUnlessRewritten ==
  \A k \in Keys \ rewritten : SidecarMatchesData(k)

C10_Witness ==
  /\ PutSucceeded
  /\ IsFile(files, last.key)
  /\ last.key \notin rewritten
  /\ SidecarOf(last.key).metadata.Size = Len(FileData(files, last.key))

\* C12: Get on a key whose object is not present fails with NotFoundErr, and
\* whenever Get returns an error the stream it returns is nil.
C12_GetMissingIsNotFound ==
  last.op = "Get" =>
    /\ (~IsFile(files, last.key) => last.err = NotFoundErr)
    /\ (last.err # Nil => last.f.isNil)

\* C13: after a Delete that returned no error Exists reports false, and a
\* Delete of a key whose data file is already gone fails with the
\* no-such-file error and changes neither directory.
C13_DeleteThenDeleteFails ==
  [][last'.op = "Delete" =>
       /\ (last'.err = Nil => ~ExistsResult(files', last'.key).exists)
       /\ (~IsFile(files, last'.key) =>
             /\ last'.err = ErrNotExist
             /\ files' = files
             /\ meta' = meta)]_vars

\* A Delete of a stored object has just succeeded: the key holds nothing.
C13_Witness ==
  /\ last.op = "Delete"
  /\ last.fault = "none"
  /\ last.err = Nil
  /\ ~ExistsResult(files, last.key).exists
  /\ ~IsFile(meta, last.key)

\* C14: a Delete that fails at the removal of the data file returns an error
\* and leaves the data file and the sidecar of the key as they were, and no
\* Delete removes or changes a sidecar whose data file is still there.
C14_FailedDeleteKeepsBoth ==
  [][last'.op = "Delete" =>
       /\ (last'.fault = "removeData" =>
             /\ last'.err # Nil
             /\ files' = files
             /\ meta' = meta)
       /\ (IsFile(files', last'.key) => meta' = meta)]_vars

\* The removal of the data file of a stored object has just failed.
C14_Witness ==
  /\ last.op = "Delete"
  /\ last.fault = "removeData"
  /\ last.err = IOError
  /\ IsFile(files, last.key)
  /\ IsFile(meta, last.key)

\* Keys of the store that List is checked on: three of them at least.
ListKeys == 1..(NumKeys + 2)

InitList ==
  /\ files = [k \in ListKeys |-> NoFile]
  /\ meta = [k \in ListKeys |-> NoFile]
  /\ now = 1
  /\ Limits = DefaultLimits
  /\ last = NoCall
  /\ rewritten = {}
  /\ procs = NoProcs

PutListStep ==
  \E key \in ListKeys, r \in {<<>>, <<0>>} : Put(key, r, 0, PlainArgs, "none", Len(r))

PutMetadataListStep ==
  \E key \in ListKeys, fault \in {"none", "encode"} : PutMetadata(key, SampleMetadata, fault)

DeleteListStep == \E key \in ListKeys, fault \in {"none", "removeMeta"} : Delete(key, fault)

\* Put, PutMetadata and Delete on three keys or more, and List.
NextList ==
  \/ PutListStep
  \/ PutMetadataListStep
  \/ DeleteListStep
  \/ List

SpecList == InitList /\ [][NextList]_vars

\* The elements of a sequence.
Range(s) == {s[i] : i \in 1..Len(s)}

\* C15: List returns exactly the keys whose data file exists, each once,
\* whatever the metadata directory holds; after Puts on three distinct keys
\* it returns those three keys.
C15_ListIsDataKeys ==
  last.op = "List" =>
    /\ Range(last.names) = {k \in DOMAIN files : ExistsResult(files, k).exists}
    /\ Len(last.names) = Cardinality(Range(last.names))

\* List has returned three keys, one of which has lost its sidecar.
C15_Witness ==
  /\ last.op = "List"
  /\ Len(last.names) = 3
  /\ \E k \in Range(last.names) : ~IsFile(meta, k)

\* C16: PutMetadata leaves the data directory as it was: Exists, Size and
\* List answer the same before and after it, the bytes Get streams are the
\* same wherever Get succeeds, and Size is the length of the data file.
C16_PutMetadataKeepsData ==
  [][last'.op = "PutMetadata" =>
       LET k == last'.key
           before == GetResult(files, meta, k)
           after == GetResult(files', meta', k)
       IN /\ files' = files
          /\ ExistsResult(files', k) = ExistsResult(files, k)
          /\ SizeResult(files', k) = SizeResult(files, k)
          /\ ListResult(files') = ListResult(files)
          /\ (before.err = Nil /\ after.err = Nil => after.f = before.f)
          /\ (after.err = Nil => after.f.file = files[k])
          /\ (IsFile(files, k) =>
                SizeResult(files', k).size = Len(FileData(files, k)))]_vars

\* PutMetadata has stored a Size that is not the length of the data file,
\* and has also run on a key that has no data file.
C16_Witness ==
  /\ last.op = "PutMetadata"
  /\ last.err = Nil
  /\ IsFile(files, last.key)
  /\ SidecarOf(last.key).metadata.Size # SizeResult(files, last.key).size
  /\ GetResult(files, meta, last.key).err = Nil

\* C17 as stated: every sidecar holds a size above 0 and below MaxSize.
C17_SizeAlwaysInRange ==
  \A k \in Keys :
    SidecarOf(k).err = Nil =>
      (0 < SidecarOf(k).metadata.Size /\ SidecarOf(k).metadata.Size < Limits.MaxSize)

\* C17: every sidecar of a key on which PutMetadata has not been called, so
\* every sidecar written by Put, holds a size above 0 and below MaxSize.
C17_PutSizeInRange ==
  \A k \in Keys \ rewritten :
    SidecarOf(k).err = Nil =>
      (0 < SidecarOf(k).metadata.Size /\ SidecarOf(k).metadata.Size < Limits.MaxSize)

\* A Put of the longest content below MaxSize has succeeded.
C17_Witness ==
  /\ PutSucceeded
  /\ last.key \notin rewritten
  /\ SidecarOf(last.key).metadata.Size = Limits.MaxSize - 1

\* ==================================================== overlapping calls
\* The calls of several workers run one filesystem step at a time.  procs
\* holds, per worker, the call, its arguments and its local variables:
\*   pc       the next filesystem step of the call, "done" once it returned
\*   bytes    the count io.Copy returned
\*   dst      the bytes of the file behind the handle dst of Put
\*   linked   the data path still names the file behind dst
\*   mlinked  the sidecar path still names the file behind the open handle
\*   mdoc     what the file behind the handle of Head held when it was unlinked
\*   m, err   the results
\*   started, alone  history: a step was taken; no other call was ever in
\*            progress during a step of this one
ProcIds == {1, 2}

RaceKeys == 1..(NumKeys + 1)

NoProc ==
  [op |-> "none", key |-> 0, pc |-> "done", r |-> <<>>, expiryTime |-> 0,
   a |-> PlainArgs, min |-> ZeroMetadata, fault |-> "none", copied |-> 0, bytes |-> 0,
   dst |-> <<>>, linked |-> FALSE, mlinked |-> FALSE, mdoc |-> EmptyDoc,
   m |-> ZeroMetadata, err |-> Nil, started |-> FALSE, alone |-> TRUE]

StartPut(key, r, a, fault, copied) ==
  [NoProc EXCEPT !.op = "Put", !.key = key, !.pc = "create", !.r = r, !.a = a,
                 !.fault = fault, !.copied = copied]

StartPutMetadata(key, m, fault) ==
  [NoProc EXCEPT !.op = "PutMetadata", !.key = key, !.pc = "metaCreate", !.min = m,
                 !.fault = fault]

StartDelete(key, fault) ==
  [NoProc EXCEPT !.op = "Delete", !.key = key, !.pc = "removeData", !.fault = fault]

StartHead(key) == [NoProc EXCEPT !.op = "Head", !.key = key, !.pc = "open"]

InProgress(q) == procs[q].started /\ procs[q].pc # "done"

\* procs after worker p has taken a step that leaves it as rec; ps is procs
\* with the handles of the other workers brought up to date.
Advance(ps, p, rec) ==
  [q \in DOMAIN ps |->
     IF q = p
       THEN [rec EXCEPT !.started = TRUE,
                        !.alone = rec.alone /\ \A o \in DOMAIN ps \ {p} : ~InProgress(o)]
     ELSE IF InProgress(q) THEN [ps[q] EXCEPT !.alone = FALSE]
     ELSE ps[q]]

\* os.Remove of a data path: the handles open on that file keep the file,
\* which no path names any more.
UnlinkData(ps, key) ==
  [q \in DOMAIN ps |->
     IF ps[q].key = key THEN [ps[q] EXCEPT !.linked = FALSE] ELSE ps[q]]

\* os.Remove of a sidecar path, the sidecar holding doc at that moment.
UnlinkMeta(ps, key, doc) ==
  [q \in DOMAIN ps |->
     IF ps[q].key = key /\ ps[q].mlinked
       THEN [ps[q] EXCEPT !.mlinked = FALSE, !.mdoc = doc]
       ELSE ps[q]]

\* ------------------------------------------------------- steps of Put
\* os.Create(filePath), line 140.
PutCreate(p) ==
  LET c == procs[p]
  IN /\ c.op = "Put" /\ c.pc = "create"
     /\ IF c.fault = "create"
          THEN /\ procs' = Advance(procs, p, [c EXCEPT !.pc = "done", !.err = IOError])
               /\ files' = files
          ELSE /\ procs' = Advance(procs, p, [c EXCEPT !.pc = "copy", !.dst = EmptyData,
                                                        !.linked = TRUE])
               /\ files' = OsCreate(files, c.key, EmptyData)
     /\ UNCHANGED <<meta, now, Limits, last, rewritten>>

\* io.Copy and the three tests on its results, lines 146-156.
PutCopy(p) ==
  LET c == procs[p]
      bytes == IF c.fault = "copy" THEN c.copied ELSE Len(c.r)
      written == Prefix(c.r, bytes)
      err == IF bytes = 0 THEN FileEmptyError
             ELSE IF c.fault = "copy" THEN IOError
             ELSE IF TooLarge(bytes, Limits) THEN FileTooLargeError
             ELSE Nil
  IN /\ c.op = "Put" /\ c.pc = "copy"
     /\ procs' = Advance(procs, p,
                   [c EXCEPT !.bytes = bytes, !.dst = written, !.err = err,
                             !.pc = IF err = Nil THEN "read" ELSE "remove"])
     /\ files' = IF c.linked THEN OsWrite(files, c.key, written) ELSE files
     /\ UNCHANGED <<meta, now, Limits, last, rewritten>>

\* The expiry, dst.Read of the header and the fields of m, lines 158-196.
PutRead(p) ==
  LET c == procs[p]
      mimetype == Detect(Prefix(c.dst, HeaderLen))
      m == [ZeroMetadata EXCEPT
              !.Mimetype = mimetype,
              !.Size = c.bytes,
              !.Sha256sum = HexEncode(Sha256Sum(TeeReader(c.r, c.bytes))),
              !.Expiry = fileExpiry(c.expiryTime, c.bytes, now, Limits),
              !.DeleteKey = c.a.deleteKey,
              !.AccessKey = c.a.accessKey,
              !.SrcIp = c.a.srcIp,
              !.ArchiveFiles = ListArchiveFiles(mimetype, c.bytes, c.dst,
                                                c.fault = "archive"),
              !.OriginalName = c.a.originalName]
  IN /\ c.op = "Put" /\ c.pc = "read"
     /\ procs' = Advance(procs, p,
                   IF c.fault = "read"
                     THEN [c EXCEPT !.pc = "remove", !.err = IOError]
                     ELSE [c EXCEPT !.pc = "metaCreate", !.m = m])
     /\ UNCHANGED <<files, meta, now, Limits, last, rewritten>>

\* Mutant: the error path empties the whole data directory.
PutRemoveEveryFile(p) ==
  LET c == procs[p]
  IN /\ c.op = "Put" /\ c.pc = "remove"
     /\ files' = [k \in DOMAIN files |-> NoFile]
     /\ procs' = Advance([q \in DOMAIN procs |-> [procs[q] EXCEPT !.linked = FALSE]], p,
                         [c EXCEPT !.pc = "done", !.linked = FALSE])
     /\ UNCHANGED <<meta, now, Limits, last, rewritten>>

\* os.Remove(filePath) on an error path, lines 148, 151, 154, 179 and 200.
PutRemove(p) ==
  LET c == procs[p]
  IN /\ c.op = "Put" /\ c.pc = "remove"
     /\ files' = RemovePartial(files, c.key)
     /\ procs' = Advance(UnlinkData(procs, c.key), p,
                         [c EXCEPT !.pc = "done", !.linked = FALSE])
     /\ UNCHANGED <<meta, now, Limits, last, rewritten>>

\* ------------------------------------------------ steps of writeMetadata
\* The Metadata a worker hands to writeMetadata.
WrittenMetadata(c) == IF c.op = "Put" THEN c.m ELSE c.min

\* os.Create(metaPath), line 120.
MetaCreate(p) ==
  LET c == procs[p]
  IN /\ c.op \in {"Put", "PutMetadata"} /\ c.pc = "metaCreate"
     /\ IF c.fault = "metaCreate"
          THEN /\ procs' = Advance(procs, p,
                             [c EXCEPT !.err = IOError,
                                       !.pc = IF c.op = "Put" THEN "remove" ELSE "done"])
               /\ meta' = meta
          ELSE /\ procs' = Advance(procs, p, [c EXCEPT !.pc = "encode", !.mlinked = TRUE])
               /\ meta' = OsCreate(meta, c.key, EmptyDoc)
     /\ UNCHANGED <<files, now, Limits, last, rewritten>>

\* encoder.Encode(mjson), line 127.
Encode(p) ==
  LET c == procs[p]
      doc == JSONEncode(ToMetadataJSON(WrittenMetadata(c)))
  IN /\ c.op \in {"Put", "PutMetadata"} /\ c.pc = "encode"
     /\ IF c.fault = "encode"
          THEN /\ procs' = Advance(procs, p, [c EXCEPT !.pc = "metaRemove", !.err = IOError])
               /\ meta' = meta
          ELSE /\ procs' = Advance(procs, p, [c EXCEPT !.pc = "done", !.err = Nil])
               /\ meta' = IF c.mlinked THEN OsWrite(meta, c.key, doc) ELSE meta
     /\ UNCHANGED <<files, now, Limits, last, rewritten>>

\* os.Remove(metaPath) after a failed Encode, line 129.
MetaRemove(p) ==
  LET c == procs[p]
      doc == IF IsFile(meta, c.key) THEN FileData(meta, c.key) ELSE EmptyDoc
  IN /\ c.op \in {"Put", "PutMetadata"} /\ c.pc = "metaRemove"
     /\ meta' = OsRemove(meta, c.key)
     /\ procs' = Advance(UnlinkMeta(procs, c.key, doc), p,
                         [c EXCEPT !.mlinked = FALSE,
                                   !.pc = IF c.op = "Put" THEN "remove" ELSE "done"])
     /\ UNCHANGED <<files, now, Limits, last, rewritten>>

\* ----------------------------------------------------- steps of Delete
\* Mutant: a failed removal of the data file does not end the call.
DeleteDataIgnoresError(p) ==
  LET c == procs[p]
  IN /\ c.op = "Delete" /\ c.pc = "removeData"
     /\ IF ~IsFile(files, c.key) \/ c.fault = "removeData"
          THEN /\ procs' = Advance(procs, p, [c EXCEPT !.pc = "removeMeta"])
               /\ files' = files
          ELSE /\ procs' = Advance(UnlinkData(procs, c.key), p, [c EXCEPT !.pc = "removeMeta"])
               /\ files' = OsRemove(files, c.key)
     /\ UNCHANGED <<meta, now, Limits, last, rewritten>>

\* os.Remove of the data file, lines 37-40.
DeleteData(p) ==
  LET c == procs[p]
  IN /\ c.op = "Delete" /\ c.pc = "removeData"
     /\ IF ~IsFile(files, c.key) \/ c.fault = "removeData"
          THEN /\ procs' = Advance(procs, p,
                             [c EXCEPT !.pc = "done", !.err = RemoveErr(files, c.key)])
               /\ files' = files
          ELSE /\ procs' = Advance(UnlinkData(procs, c.key), p, [c EXCEPT !.pc = "removeMeta"])
               /\ files' = OsRemove(files, c.key)
     /\ UNCHANGED <<meta, now, Limits, last, rewritten>>

\* Mutant: Delete returns without removing the sidecar.
DeleteMetaSkipped(p) ==
  LET c == procs[p]
  IN /\ c.op = "Delete" /\ c.pc = "removeMeta"
     /\ procs' = Advance(procs, p, [c EXCEPT !.pc = "done", !.err = Nil])
     /\ meta' = meta
     /\ UNCHANGED <<files, now, Limits, last, rewritten>>

\* os.Remove of the sidecar, lines 41-42.
DeleteMeta(p) ==
  LET c == procs[p]
  IN /\ c.op = "Delete" /\ c.pc = "removeMeta"
     /\ IF ~IsFile(meta, c.key) \/ c.fault = "removeMeta"
          THEN /\ procs' = Advance(procs, p,
                             [c EXCEPT !.pc = "done", !.err = RemoveErr(meta, c.key)])
               /\ meta' = meta
          ELSE /\ procs' = Advance(UnlinkMeta(procs, c.key, FileData(meta, c.key)), p,
                                   [c EXCEPT !.pc = "done", !.err = Nil])
               /\ meta' = OsRemove(meta, c.key)
     /\ UNCHANGED <<files, now, Limits, last, rewritten>>

\* ------------------------------------------------------- steps of Head
\* os.Open of the sidecar, lines 51-56.
HeadOpen(p) ==
  LET c == procs[p]
  IN /\ c.op = "Head" /\ c.pc = "open"
     /\ procs' = Advance(procs, p,
                   IF IsFile(meta, c.key)
                     THEN [c EXCEPT !.pc = "decode", !.mlinked = TRUE]
                     ELSE [c EXCEPT !.pc = "done", !.err = NotFoundErr])
     /\ UNCHANGED <<files, meta, now, Limits, last, rewritten>>

\* decoder.Decode and the copy of the fields, lines 58-75.
HeadDecode(p) ==
  LET c == procs[p]
      doc == IF c.mlinked THEN FileData(meta, c.key) ELSE c.mdoc
  IN /\ c.op = "Head" /\ c.pc = "decode"
     /\ procs' = Advance(procs, p,
                   IF doc = EmptyDoc
                     THEN [c EXCEPT !.pc = "done", !.err = BadMetadata]
                     ELSE [c EXCEPT !.pc = "done", !.err = Nil,
                                    !.m = HeadFromJSON(JSONDecode(doc))])
     /\ UNCHANGED <<files, meta, now, Limits, last, rewritten>>

\* ------------------------------------------- specifications of overlap
EmptyDir == [k \in RaceKeys |-> NoFile]

\* The store after one successful Put(key, <<0>>) into the empty store.
Stored(key) ==
  PutResult(EmptyDir, EmptyDir, key, <<0>>, 0, FullArgs, 1, DefaultLimits, "none", 1)

\* Every Put on key: every content length, every fault, every point at
\* which io.Copy can fail.
PutCalls(key) ==
  {StartPut(key, x[1], FullArgs, x[2], x[3]) :
     x \in {y \in (Zeros \cup {<<MaxByte>>}) \X PutFaults \X (0..MaxContentLen) :
              IF y[2] = "copy" THEN y[3] <= Len(y[1]) ELSE y[3] = Len(y[1])}}

DeleteCalls(key) == {StartDelete(key, fault) : fault \in DeleteFaults}

\* A store that holds key 2; worker 1 runs a Put on key 1 while worker 2
\* runs a Put or a Delete on key 2.
InitDistinct ==
  /\ files = Stored(2).files
  /\ meta = Stored(2).meta
  /\ now = 1
  /\ Limits = DefaultLimits
  /\ last = NoCall
  /\ rewritten = {}
  /\ procs \in {<<c1, c2>> : c1 \in PutCalls(1), c2 \in PutCalls(2) \cup DeleteCalls(2)}

NextDistinct ==
  \/ \E p \in ProcIds : PutCreate(p)
  \/ \E p \in ProcIds : PutCopy(p)
  \/ \E p \in ProcIds : PutRead(p)
  \/ \E p \in ProcIds : PutRemove(p)
  \/ \E p \in ProcIds : MetaCreate(p)
  \/ \E p \in ProcIds : Encode(p)
  \/ \E p \in ProcIds : MetaRemove(p)
  \/ \E p \in ProcIds : DeleteData(p)
  \/ \E p \in ProcIds : DeleteMeta(p)

SpecDistinct == InitDistinct /\ [][NextDistinct]_vars

\* Worker 2 runs Head on key 1 while worker 1 runs PutMetadata on the stored
\* key 1, or the first Put on key 1 in the empty store.
InitHeadRace ==
  /\ now = 1
  /\ Limits = DefaultLimits
  /\ last = NoCall
  /\ rewritten = {}
  /\ \/ /\ files = Stored(1).files
        /\ meta = Stored(1).meta
        /\ \E m \in MetaInputs, fault \in WriteFaults :
             procs = <<StartPutMetadata(1, m, fault), StartHead(1)>>
     \/ /\ files = EmptyDir
        /\ meta = EmptyDir
        /\ \E c \in PutCalls(1) : procs = <<c, StartHead(1)>>

NextHeadRace ==
  \/ \E p \in ProcIds : PutCreate(p)
  \/ \E p \in ProcIds : PutCopy(p)
  \/ \E p \in ProcIds : PutRead(p)
  \/ \E p \in ProcIds : PutRemove(p)
  \/ \E p \in ProcIds : MetaCreate(p)
  \/ \E p \in ProcIds : Encode(p)
  \/ \E p \in ProcIds : MetaRemove(p)
  \/ \E p \in ProcIds : HeadOpen(p)
  \/ \E p \in ProcIds : HeadDecode(p)

SpecHeadRace == InitHeadRace /\ [][NextHeadRace]_vars

\* Worker 1 runs a Put of an acceptable content on key 1 while worker 2 runs
\* Delete on key 1, in the empty store or on the stored key; nothing fails.
InitPutDelete ==
  /\ now = 1
  /\ Limits = DefaultLimits
  /\ last = NoCall
  /\ rewritten = {}
  /\ \E s \in {[files |-> EmptyDir, meta |-> EmptyDir],
               [files |-> Stored(1).files, meta |-> Stored(1).meta]} :
       files = s.files /\ meta = s.meta
  /\ \E r \in {c \in Contents : 0 < Len(c) /\ ~TooLarge(Len(c), DefaultLimits)},
        a \in {PlainArgs, FullArgs} :
       procs = <<StartPut(1, r, a, "none", Len(r)), StartDelete(1, "none")>>

NextPutDelete ==
  \/ \E p \in ProcIds : PutCreate(p)
  \/ \E p \in ProcIds : PutCopy(p)
  \/ \E p \in ProcIds : PutRead(p)
  \/ \E p \in ProcIds : MetaCreate(p)
  \/ \E p \in ProcIds : Encode(p)
  \/ \E p \in ProcIds : DeleteData(p)
  \/ \E p \in ProcIds : DeleteMeta(p)

SpecPutDelete == InitPutDelete /\ [][NextPutDelete]_vars

\* --------------------------------------------- claims on overlapping calls
Returned(p) == procs[p].pc = "done"

\* What Put returns and leaves when it runs alone on the store of InitDistinct.
PutAlone(c) ==
  PutResult(Stored(2).files, Stored(2).meta, c.key, c.r, c.expiryTime, c.a, now,
            Limits, c.fault, c.copied)

\* C11: in every interleaving of the filesystem steps of calls on distinct
\* keys, a Put that has returned has the error, the Metadata, the data
\* file and the sidecar it has when it runs alone.
C11_DistinctPutsAsAlone ==
  \A p \in DOMAIN procs :
    (procs[p].op = "Put" /\ Returned(p)) =>
      LET c == procs[p]
          res == PutAlone(c)
      IN /\ c.err = res.err
         /\ c.m = res.m
         /\ files[c.key] = res.files[c.key]
         /\ meta[c.key] = res.meta[c.key]

\* Two Puts whose steps were interleaved have both succeeded.
C11_Witness ==
  /\ \A p \in DOMAIN procs :
       procs[p].op = "Put" /\ Returned(p) /\ procs[p].err = Nil /\ ~procs[p].alone
  /\ DOMAIN procs = ProcIds

\* The Metadata Head makes of what writeMetadata stores for m.
HeadOf(m) == HeadFromJSON(JSONDecode(JSONEncode(ToMetadataJSON(m))))

\* C18: a Head that overlaps a PutMetadata(key, m2) on a stored key returns
\* the stored Metadata or m2 and no error; a Head that overlaps the first
\* Put of a key returns NotFoundErr or the whole Metadata of that Put.
C18_HeadSeesWholeRecord ==
  \A p \in DOMAIN procs :
    (procs[p].op = "Head" /\ Returned(p)) =>
      LET h == procs[p]
          w == procs[1]
      IN /\ w.op = "PutMetadata" =>
              /\ h.err = Nil
              /\ h.m \in {HeadResult(Stored(1).meta, 1).metadata, HeadOf(w.min)}
         /\ w.op = "Put" =>
              /\ h.err \in {Nil, NotFoundErr}
              /\ h.err = Nil => h.m = HeadOf(w.m)

\* C19: a step of a Put that creates, writes or removes the sidecar of its
\* key finds all the content in the data file and every test of Put passed;
\* a step of a Delete that removes the sidecar finds the data file gone; and
\* once a Put has returned no error, Head and Get give its Metadata and the
\* whole content.
C19_DataBeforeMetadata ==
  [][\A p \in DOMAIN procs :
       LET c == procs[p]
           k == c.key
       IN /\ (c.op = "Put" /\ meta'[k] # meta[k]) =>
               /\ files[k] = <<c.r>>
               /\ c.bytes = Len(c.r)
               /\ c.bytes > 0
               /\ ~TooLarge(c.bytes, Limits)
               /\ c.fault \notin {"create", "copy", "read"}
          /\ (c.op = "Delete" /\ meta'[k] # meta[k]) =>
               /\ ~IsFile(files, k)
               /\ ~IsFile(meta', k)
          /\ (procs'[p].op = "Put" /\ procs'[p].pc = "done" /\ procs'[p].err = Nil) =>
               /\ HeadResult(meta', k) = [metadata |-> HeadOf(procs'[p].m), err |-> Nil]
               /\ GetResult(files', meta', k).f = OpenStream(c.r)]_vars

\* A Put has created its sidecar and a Delete has removed its data file,
\* each on its own key and before its last step.
C19_Witness ==
  /\ DOMAIN procs = ProcIds
  /\ procs[1].op = "Put" /\ procs[1].pc = "encode"
  /\ files[1] = <<procs[1].r>> /\ IsFile(meta, 1)
  /\ procs[2].op = "Delete" /\ procs[2].pc = "removeMeta"
  /\ ~IsFile(files, 2) /\ IsFile(meta, 2)

FullyPresent(k) == IsFile(files, k) /\ IsFile(meta, k)

FullyAbsent(k) == ~IsFile(files, k) /\ ~IsFile(meta, k)

BothReturned == DOMAIN procs = ProcIds /\ Returned(1) /\ Returned(2)

\* C20 as stated: once a Put and a Delete on one key have both returned,
\* whatever their interleaving, the key is fully present and the Put has
\* succeeded, or the key is fully absent.
C20_PresentOrAbsent ==
  BothReturned =>
    \/ FullyPresent(1) /\ procs[1].err = Nil
    \/ FullyAbsent(1)

\* C20: the Put succeeds in every interleaving, and when the steps of the
\* two calls did not interleave the key ends fully present or fully absent.
C20_PresentOrAbsentUnlessInterleaved ==
  BothReturned =>
    /\ procs[1].err = Nil
    /\ procs[1].alone => (FullyPresent(1) \/ FullyAbsent(1))

\* The Put ran first and the Delete after it: the key is fully absent.
C20_Witness ==
  /\ BothReturned
  /\ procs[1].alone
  /\ procs[2].err = Nil
  /\ FullyAbsent(1)

====
